---- MODULE Spec2Model ----
(***************************************************************************)
(* State-machine model of the LemmingsFHE contract: role-gated batch       *)
(* management, per-batch submission of encrypted records, decryption       *)
(* requests bound to a hash of the batch's ciphertext handles, and the     *)
(* oracle callback that finalizes a request.                               *)
(*                                                                         *)
(* Every external function is one action.  The checks of a function are    *)
(* gathered in an operator that gives the error the call reverts with, or  *)
(* NoError.  A call that reverts leaves every variable as it was; a call   *)
(* that returns records its name, its sender and the event it emitted in   *)
(* `result`.                                                               *)
(***************************************************************************)
EXTENDS Integers, Sequences, FiniteSets, TLC

(***************************************************************************)
(* Bounds of the model.                                                    *)
(***************************************************************************)
\* block.timestamp ranges over 0..MaxTime
MaxTime == 1
\* openBatch is explored until currentBatchId reaches MaxBatches
MaxBatches == 2
\* submitLemming is explored until a batch holds MaxRecords records
MaxRecords == 2
\* requestBatchDecryption is explored until the oracle has issued MaxRequests ids
MaxRequests == 2
\* a behaviour holds at most MaxSteps state-changing steps (calls that return,
\* and advances of the clock); calls that revert change nothing and are not
\* counted
MaxSteps == 7

(***************************************************************************)
(* Addresses, uint256 values and the inputs of the calls.                  *)
(***************************************************************************)
\* address(0), the value of an unset address
ZeroAddress == 0
\* msg.sender of the constructor
Deployer == 1
\* the accounts that send transactions
Principals == {1, 2}
\* the account that relays the oracle's response to myCallback, which never
\* reads msg.sender
Relayer == 3
\* the accounts a callback is tried from: myCallback has no modifier
CallbackSenders == Principals \cup {Relayer}
\* address(this), the domain separator of the state hash
ThisAddress == 99
\* address(this) of a second deployment of the contract
OtherAddress == 98
\* the deployments whose state hashes are compared
CoordinatorAddresses == {ThisAddress, OtherAddress}

\* type(uint256).max.  Every other uint256 of the model is a small natural
\* number, so the top element is kept apart (written as its two's-complement
\* reading) and the checked arithmetic below treats it by cases.
MaxUint256 == -1

\* a + b of Solidity 0.8 reverts with Panic(0x11) when the sum exceeds MaxUint256
AddOverflows(a, b) ==
    \/ a = MaxUint256 /\ b # 0
    \/ b = MaxUint256 /\ a # 0

\* a + b when it does not overflow
CheckedAdd(a, b) ==
    IF a = MaxUint256 \/ b = MaxUint256 THEN MaxUint256 ELSE a + b

\* a < b on uint256
UintLess(a, b) ==
    /\ a # MaxUint256
    /\ (b = MaxUint256 \/ a < b)

\* values passed to setCooldownSeconds
CooldownInputs == {0, 1, MaxUint256}

BatchIds == 0..MaxBatches
LemmingIds == 1..MaxRecords
RequestIds == 1..MaxRequests

\* the euint32 handles of the value-initialised Lemming struct
ZeroLemming == [ability |-> 0, x |-> 0, y |-> 0]
\* the (ability, x, y) handle triples passed to submitLemming
LemmingInputs ==
    { [ability |-> 11, x |-> 12, y |-> 13],
      [ability |-> 21, x |-> 22, y |-> 23] }

\* bytes cleartexts: whole 32-byte words followed by `extra` (< 32) loose bytes
MaxWords == 3 * MaxRecords + 1
\* The words are pairwise different, so that the order of decoding shows.
ClearWords(k) == [i \in 1..k |-> 100 + i]
\* one word less than, exactly and one word more than 3 words per record, and
\* one byte less than and 31 bytes more than the 3 words of a single record
CleartextInputs ==
    { [words |-> ClearWords(3 * n + d), extra |-> 0] :
        n \in 1..MaxRecords, d \in {-1, 0, 1} }
        \cup { [words |-> ClearWords(k), extra |-> 31] : k \in {2, 3} }
ByteLength(cleartexts) == 32 * Len(cleartexts.words) + cleartexts.extra


(***************************************************************************)
(* State.                                                                  *)
(***************************************************************************)
VARIABLES
    owner,                      \* address public owner
    isProvider,                 \* mapping(address => bool)
    paused,                     \* bool
    cooldownSeconds,            \* uint256
    lastSubmissionTime,         \* mapping(address => uint256)
    lastDecryptionRequestTime,  \* mapping(address => uint256)
    currentBatchId,             \* uint256
    isBatchOpen,                \* mapping(uint256 => bool)
    decryptionContexts,         \* mapping(uint256 => DecryptionContext)
    lemmings,                   \* mapping(uint256 => mapping(uint256 => Lemming))
    lemmingCountInBatch,        \* mapping(uint256 => uint256)
    blockTimestamp,             \* block.timestamp of the next transaction
    requestCounter,             \* ids issued so far by FHE.requestDecryption
    result,                     \* the last call that returned, and its event
    requestedCts,               \* history: handle sequence sent with each request
    submissions,                \* history: successful submitLemming calls per batch
    hasSubmitted,               \* history: accounts whose submitLemming returned
    hasRequested,               \* history: accounts whose requestBatchDecryption returned
    steps                       \* state-changing steps taken so far

storage ==
    << owner, isProvider, paused, cooldownSeconds, lastSubmissionTime,
       lastDecryptionRequestTime, currentBatchId, isBatchOpen,
       decryptionContexts, lemmings, lemmingCountInBatch >>
environment == << blockTimestamp, requestCounter >>
history == << requestedCts, submissions, hasSubmitted, hasRequested >>
vars == << storage, environment, result, history, steps >>

(***************************************************************************)
(* Outcomes of a call.                                                     *)
(***************************************************************************)
NoError == "ok"
NoEvent == << >>

\* the call returned and emitted `event`
Returned(op, sender, event) ==
    /\ steps < MaxSteps
    /\ steps' = steps + 1
    /\ result' = [op |-> op, caller |-> sender, event |-> event]

\* the call reverted: the EVM rolls every write back and no event is logged
Reverted == UNCHANGED vars

(***************************************************************************)
(* Modifiers: each gives the error it reverts with, or NoError.            *)
(***************************************************************************)
\* mutant: providers pass the owner check too
onlyOwner_OrProvider(sender) ==
    IF sender # owner /\ ~isProvider[sender] THEN "NotOwner" ELSE NoError

onlyOwner(sender) ==
    IF sender # owner THEN "NotOwner" ELSE NoError

\* mutant: the owner passes the provider check too
onlyProvider_OrOwner(sender) ==
    IF ~isProvider[sender] /\ sender # owner THEN "NotProvider" ELSE NoError

onlyProvider(sender) ==
    IF ~isProvider[sender] THEN "NotProvider" ELSE NoError

\* mutant: the modifier body without its check
whenNotPaused_NoCheck == NoError

whenNotPaused ==
    IF paused THEN "PausedState" ELSE NoError

respectCooldown(user, cooldownMapping) ==
    IF AddOverflows(cooldownMapping[user], cooldownSeconds) THEN "Panic"
    ELSE IF UintLess(blockTimestamp,
                     CheckedAdd(cooldownMapping[user], cooldownSeconds))
         THEN "CooldownActive"
         ELSE NoError

\* the error of the first check that fails, in the order the checks run
RECURSIVE FirstError(_)
FirstError(checks) ==
    IF checks = << >> THEN NoError
    ELSE IF Head(checks) # NoError THEN Head(checks)
    ELSE FirstError(Tail(checks))

(***************************************************************************)
(* The state hash.                                                         *)
(***************************************************************************)
\* the handles of records 1..n of a batch: ability, x, y of each, by record id
BatchCiphertexts(batchId, n) ==
    [k \in 1..(3 * n) |->
        LET lemming == lemmings[batchId][((k - 1) \div 3) + 1]
        IN  CASE (k - 1) % 3 = 0 -> lemming.ability
              [] (k - 1) % 3 = 1 -> lemming.x
              [] OTHER           -> lemming.y]

\* abi.encode(bytes32[] cts, address a): the head holds the offset of the
\* array and the address, the tail the array's length and its elements
AbiEncode(cts, a) == << 64, a, Len(cts) >> \o cts

\* keccak256 as an ideal hash: the digest stands for its preimage
Keccak256(words) == [preimage |-> words]
\* bytes32(0), the stateHash of a context that was never written
ZeroHash == [preimage |-> << >>]

\* mutant: the hash binds the contract address only
_hashCiphertexts_AddressOnly(cts) == Keccak256(AbiEncode(<< >>, ThisAddress))

\* mutant: the hash binds the number of handles only
_hashCiphertextsAt_LengthOnly(cts, this) == Keccak256(<< Len(cts) >>)

\* _hashCiphertexts as run by the contract deployed at address `this`
_hashCiphertextsAt(cts, this) == Keccak256(AbiEncode(cts, this))

_hashCiphertexts(cts) == _hashCiphertextsAt(cts, ThisAddress)

ZeroContext == [batchId |-> 0, stateHash |-> ZeroHash, processed |-> FALSE]

(***************************************************************************)
(* Construction.                                                           *)
(***************************************************************************)
Init ==
    /\ owner = Deployer
    /\ isProvider = [a \in Principals |-> FALSE]
    /\ paused = FALSE
    /\ cooldownSeconds = 0
    /\ lastSubmissionTime = [a \in Principals |-> 0]
    /\ lastDecryptionRequestTime = [a \in Principals |-> 0]
    /\ currentBatchId = 0
    /\ isBatchOpen = [b \in BatchIds |-> FALSE]
    /\ decryptionContexts = [r \in RequestIds |-> ZeroContext]
    /\ lemmings = [b \in BatchIds |-> [i \in LemmingIds |-> ZeroLemming]]
    /\ lemmingCountInBatch = [b \in BatchIds |-> 0]
    /\ blockTimestamp = 0
    /\ requestCounter = 0
    /\ result = [op |-> "constructor", caller |-> Deployer,
                 event |-> << "OwnershipTransferred", ZeroAddress, Deployer >>]
    /\ requestedCts = [r \in RequestIds |-> << >>]
    /\ submissions = [b \in BatchIds |-> 0]
    /\ hasSubmitted = [a \in Principals |-> FALSE]
    /\ hasRequested = [a \in Principals |-> FALSE]
    /\ steps = 0

(***************************************************************************)
(* Administration.                                                         *)
(***************************************************************************)
transferOwnershipError(sender) == onlyOwner(sender)

transferOwnership(sender, newOwner) ==
    IF transferOwnershipError(sender) # NoError THEN Reverted
    ELSE /\ owner' = newOwner
         /\ Returned("transferOwnership", sender,
                               << "OwnershipTransferred", owner, newOwner >>)
         /\ UNCHANGED << isProvider, paused, cooldownSeconds, lastSubmissionTime,
                         lastDecryptionRequestTime, currentBatchId, isBatchOpen,
                         decryptionContexts, lemmings, lemmingCountInBatch,
                         environment, history >>

addProviderError(sender) == onlyOwner(sender)

\* mutant: adding an account flips its membership
addProvider_Toggles(sender, provider) ==
    IF addProviderError(sender) # NoError THEN Reverted
    ELSE /\ isProvider' = [isProvider EXCEPT ![provider] = ~@]
         /\ Returned("addProvider", sender,
                               << "ProviderAdded", provider >>)
         /\ UNCHANGED << owner, paused, cooldownSeconds, lastSubmissionTime,
                         lastDecryptionRequestTime, currentBatchId, isBatchOpen,
                         decryptionContexts, lemmings, lemmingCountInBatch,
                         environment, history >>

addProvider(sender, provider) ==
    IF addProviderError(sender) # NoError THEN Reverted
    ELSE /\ isProvider' = [isProvider EXCEPT ![provider] = TRUE]
         /\ Returned("addProvider", sender,
                               << "ProviderAdded", provider >>)
         /\ UNCHANGED << owner, paused, cooldownSeconds, lastSubmissionTime,
                         lastDecryptionRequestTime, currentBatchId, isBatchOpen,
                         decryptionContexts, lemmings, lemmingCountInBatch,
                         environment, history >>

removeProviderError(sender) == onlyOwner(sender)

removeProvider(sender, provider) ==
    IF removeProviderError(sender) # NoError THEN Reverted
    ELSE /\ isProvider' = [isProvider EXCEPT ![provider] = FALSE]
         /\ Returned("removeProvider", sender,
                               << "ProviderRemoved", provider >>)
         /\ UNCHANGED << owner, paused, cooldownSeconds, lastSubmissionTime,
                         lastDecryptionRequestTime, currentBatchId, isBatchOpen,
                         decryptionContexts, lemmings, lemmingCountInBatch,
                         environment, history >>

setPausedError(sender) == onlyOwner(sender)

setPaused(sender, _paused) ==
    IF setPausedError(sender) # NoError THEN Reverted
    ELSE /\ paused' = _paused
         /\ Returned("setPaused", sender,
                               IF _paused THEN << "Paused", sender >>
                                          ELSE << "Unpaused", sender >>)
         /\ UNCHANGED << owner, isProvider, cooldownSeconds, lastSubmissionTime,
                         lastDecryptionRequestTime, currentBatchId, isBatchOpen,
                         decryptionContexts, lemmings, lemmingCountInBatch,
                         environment, history >>

setCooldownSecondsError(sender) == onlyOwner(sender)

setCooldownSeconds(sender, newCooldownSeconds) ==
    IF setCooldownSecondsError(sender) # NoError THEN Reverted
    ELSE /\ cooldownSeconds' = newCooldownSeconds
         /\ Returned("setCooldownSeconds", sender,
                               << "CooldownSecondsSet", cooldownSeconds,
                                  newCooldownSeconds >>)
         /\ UNCHANGED << owner, isProvider, paused, lastSubmissionTime,
                         lastDecryptionRequestTime, currentBatchId, isBatchOpen,
                         decryptionContexts, lemmings, lemmingCountInBatch,
                         environment, history >>

(***************************************************************************)
(* Batches and records.                                                    *)
(***************************************************************************)
openBatchError(sender) == FirstError(<< onlyOwner(sender), whenNotPaused >>)

\* mutant: opening a batch closes the one that was current
openBatch_ClosesPrevious(sender) ==
    IF openBatchError(sender) # NoError THEN Reverted
    ELSE /\ currentBatchId < MaxBatches
         /\ currentBatchId' = currentBatchId + 1
         /\ isBatchOpen' = [isBatchOpen EXCEPT ![currentBatchId] = FALSE,
                                               ![currentBatchId + 1] = TRUE]
         /\ Returned("openBatch", sender,
                               << "BatchOpened", currentBatchId + 1 >>)
         /\ UNCHANGED << owner, isProvider, paused, cooldownSeconds,
                         lastSubmissionTime, lastDecryptionRequestTime,
                         decryptionContexts, lemmings, lemmingCountInBatch,
                         environment, history >>

\* mutant: the batch is opened under the id read before the increment
openBatch_PostIncrement(sender) ==
    IF openBatchError(sender) # NoError THEN Reverted
    ELSE /\ currentBatchId < MaxBatches
         /\ currentBatchId' = currentBatchId + 1
         /\ isBatchOpen' = [isBatchOpen EXCEPT ![currentBatchId] = TRUE]
         /\ Returned("openBatch", sender,
                               << "BatchOpened", currentBatchId >>)
         /\ UNCHANGED << owner, isProvider, paused, cooldownSeconds,
                         lastSubmissionTime, lastDecryptionRequestTime,
                         decryptionContexts, lemmings, lemmingCountInBatch,
                         environment, history >>

openBatch(sender) ==
    IF openBatchError(sender) # NoError THEN Reverted
    ELSE /\ currentBatchId < MaxBatches
         /\ currentBatchId' = currentBatchId + 1
         /\ isBatchOpen' = [isBatchOpen EXCEPT ![currentBatchId + 1] = TRUE]
         /\ Returned("openBatch", sender,
                               << "BatchOpened", currentBatchId + 1 >>)
         /\ UNCHANGED << owner, isProvider, paused, cooldownSeconds,
                         lastSubmissionTime, lastDecryptionRequestTime,
                         decryptionContexts, lemmings, lemmingCountInBatch,
                         environment, history >>

closeBatchError(sender, batchId) ==
    FirstError(<< onlyOwner(sender),
                  IF ~isBatchOpen[batchId] THEN "BatchClosedOrInvalid"
                                           ELSE NoError >>)

\* mutant: closing a batch also resets its record count
closeBatch_ClearsCount(sender, batchId) ==
    IF closeBatchError(sender, batchId) # NoError THEN Reverted
    ELSE /\ isBatchOpen' = [isBatchOpen EXCEPT ![batchId] = FALSE]
         /\ lemmingCountInBatch' = [lemmingCountInBatch EXCEPT ![batchId] = 0]
         /\ Returned("closeBatch", sender, << "BatchClosed", batchId >>)
         /\ UNCHANGED << owner, isProvider, paused, cooldownSeconds,
                         lastSubmissionTime, lastDecryptionRequestTime,
                         currentBatchId, decryptionContexts, lemmings,
                         environment, history >>

closeBatch(sender, batchId) ==
    IF closeBatchError(sender, batchId) # NoError THEN Reverted
    ELSE /\ isBatchOpen' = [isBatchOpen EXCEPT ![batchId] = FALSE]
         /\ Returned("closeBatch", sender, << "BatchClosed", batchId >>)
         /\ UNCHANGED << owner, isProvider, paused, cooldownSeconds,
                         lastSubmissionTime, lastDecryptionRequestTime,
                         currentBatchId, decryptionContexts, lemmings,
                         lemmingCountInBatch, environment, history >>

\* mutant: submitLemming without the check that the batch is open
submitLemmingError_NoOpenCheck(sender, batchId) ==
    FirstError(<< onlyProvider(sender), whenNotPaused,
                  respectCooldown(sender, lastSubmissionTime) >>)

submitLemmingError(sender, batchId) ==
    FirstError(<< onlyProvider(sender), whenNotPaused,
                  respectCooldown(sender, lastSubmissionTime),
                  IF ~isBatchOpen[batchId] THEN "BatchClosedOrInvalid"
                                           ELSE NoError >>)

\* mutant: a submission also starts the sender's decryption cooldown
submitLemming_StampsBothClasses(sender, batchId, encrypted) ==
    LET lemmingId == lemmingCountInBatch[batchId] + 1 IN
    IF submitLemmingError(sender, batchId) # NoError THEN Reverted
    ELSE /\ lemmingCountInBatch[batchId] < MaxRecords
         /\ lemmingCountInBatch' =
                [lemmingCountInBatch EXCEPT ![batchId] = lemmingId]
         /\ lemmings' = [lemmings EXCEPT ![batchId][lemmingId] = encrypted]
         /\ lastSubmissionTime' =
                [lastSubmissionTime EXCEPT ![sender] = blockTimestamp]
         /\ lastDecryptionRequestTime' =
                [lastDecryptionRequestTime EXCEPT ![sender] = blockTimestamp]
         /\ Returned("submitLemming", sender,
                               << "LemmingSubmitted", sender, batchId, lemmingId >>)
         /\ submissions' = [submissions EXCEPT ![batchId] = @ + 1]
         /\ hasSubmitted' = [hasSubmitted EXCEPT ![sender] = TRUE]
         /\ UNCHANGED << owner, isProvider, paused, cooldownSeconds,
                         currentBatchId, isBatchOpen,
                         decryptionContexts, environment, requestedCts,
                         hasRequested >>

\* mutant: a call stopped by the closed batch keeps its cooldown timestamp
submitLemming_StampsFailedAttempt(sender, batchId, encrypted) ==
    LET lemmingId == lemmingCountInBatch[batchId] + 1 IN
    IF submitLemmingError(sender, batchId) = "BatchClosedOrInvalid"
    THEN /\ lastSubmissionTime' =
                [lastSubmissionTime EXCEPT ![sender] = blockTimestamp]
         /\ UNCHANGED << owner, isProvider, paused, cooldownSeconds,
                         lastDecryptionRequestTime, currentBatchId, isBatchOpen,
                         decryptionContexts, lemmings, lemmingCountInBatch,
                         environment, result, history, steps >>
    ELSE IF submitLemmingError(sender, batchId) # NoError THEN Reverted
    ELSE /\ lemmingCountInBatch[batchId] < MaxRecords
         /\ lemmingCountInBatch' =
                [lemmingCountInBatch EXCEPT ![batchId] = lemmingId]
         /\ lemmings' = [lemmings EXCEPT ![batchId][lemmingId] = encrypted]
         /\ lastSubmissionTime' =
                [lastSubmissionTime EXCEPT ![sender] = blockTimestamp]
         /\ Returned("submitLemming", sender,
                               << "LemmingSubmitted", sender, batchId, lemmingId >>)
         /\ submissions' = [submissions EXCEPT ![batchId] = @ + 1]
         /\ hasSubmitted' = [hasSubmitted EXCEPT ![sender] = TRUE]
         /\ UNCHANGED << owner, isProvider, paused, cooldownSeconds,
                         lastDecryptionRequestTime, currentBatchId, isBatchOpen,
                         decryptionContexts, environment, requestedCts,
                         hasRequested >>

\* mutant: lemmingCountInBatch[batchId]++ in place of ++lemmingCountInBatch[batchId]
submitLemming_PostIncrement(sender, batchId, encrypted) ==
    LET lemmingId == lemmingCountInBatch[batchId] IN
    IF submitLemmingError(sender, batchId) # NoError THEN Reverted
    ELSE /\ lemmingCountInBatch[batchId] < MaxRecords
         /\ lemmingCountInBatch' =
                [lemmingCountInBatch EXCEPT ![batchId] = @ + 1]
         /\ lemmings' = IF lemmingId = 0 THEN lemmings
                        ELSE [lemmings EXCEPT ![batchId][lemmingId] = encrypted]
         /\ lastSubmissionTime' =
                [lastSubmissionTime EXCEPT ![sender] = blockTimestamp]
         /\ Returned("submitLemming", sender,
                               << "LemmingSubmitted", sender, batchId, lemmingId >>)
         /\ submissions' = [submissions EXCEPT ![batchId] = @ + 1]
         /\ hasSubmitted' = [hasSubmitted EXCEPT ![sender] = TRUE]
         /\ UNCHANGED << owner, isProvider, paused, cooldownSeconds,
                         lastDecryptionRequestTime, currentBatchId, isBatchOpen,
                         decryptionContexts, environment, requestedCts,
                         hasRequested >>

submitLemming(sender, batchId, encrypted) ==
    LET lemmingId == lemmingCountInBatch[batchId] + 1 IN
    IF submitLemmingError(sender, batchId) # NoError THEN Reverted
    ELSE /\ lemmingCountInBatch[batchId] < MaxRecords
         /\ lemmingCountInBatch' =
                [lemmingCountInBatch EXCEPT ![batchId] = lemmingId]
         /\ lemmings' = [lemmings EXCEPT ![batchId][lemmingId] = encrypted]
         /\ lastSubmissionTime' =
                [lastSubmissionTime EXCEPT ![sender] = blockTimestamp]
         /\ Returned("submitLemming", sender,
                               << "LemmingSubmitted", sender, batchId, lemmingId >>)
         /\ submissions' = [submissions EXCEPT ![batchId] = @ + 1]
         /\ hasSubmitted' = [hasSubmitted EXCEPT ![sender] = TRUE]
         /\ UNCHANGED << owner, isProvider, paused, cooldownSeconds,
                         lastDecryptionRequestTime, currentBatchId, isBatchOpen,
                         decryptionContexts, environment, requestedCts,
                         hasRequested >>

(***************************************************************************)
(* Decryption requests and the oracle callback.                            *)
(***************************************************************************)
\* FHE.requestDecryption: the oracle hands out a fresh id for every request
OracleRequestId == requestCounter + 1

\* mutant: requestBatchDecryption without the check of the record count
requestBatchDecryptionError_NoCountCheck(sender, batchId) ==
    FirstError(<< onlyOwner(sender), whenNotPaused,
                  respectCooldown(sender, lastDecryptionRequestTime) >>)

\* mutant: requestBatchDecryption refuses a batch that is not open
requestBatchDecryptionError_OpenOnly(sender, batchId) ==
    FirstError(<< onlyOwner(sender), whenNotPaused,
                  respectCooldown(sender, lastDecryptionRequestTime),
                  IF lemmingCountInBatch[batchId] = 0 THEN "InvalidBatchId"
                                                      ELSE NoError,
                  IF ~isBatchOpen[batchId] THEN "BatchClosedOrInvalid"
                                           ELSE NoError >>)

requestBatchDecryptionError(sender, batchId) ==
    FirstError(<< onlyOwner(sender), whenNotPaused,
                  respectCooldown(sender, lastDecryptionRequestTime),
                  IF lemmingCountInBatch[batchId] = 0 THEN "InvalidBatchId"
                                                      ELSE NoError >>)

\* mutant: the context is stored under the batch id, not the request id
requestBatchDecryption_KeyedByBatch(sender, batchId) ==
    LET numLemmings == lemmingCountInBatch[batchId]
        cts == BatchCiphertexts(batchId, numLemmings)
        stateHash == _hashCiphertexts(cts)
        requestId == OracleRequestId
    IN
    IF requestBatchDecryptionError(sender, batchId) # NoError THEN Reverted
    ELSE /\ requestCounter < MaxRequests
         /\ batchId \in RequestIds
         /\ requestCounter' = requestId
         /\ decryptionContexts' =
                [decryptionContexts EXCEPT ![batchId] =
                    [batchId |-> batchId, stateHash |-> stateHash,
                     processed |-> FALSE]]
         /\ lastDecryptionRequestTime' =
                [lastDecryptionRequestTime EXCEPT ![sender] = blockTimestamp]
         /\ Returned("requestBatchDecryption", sender,
                               << "DecryptionRequested", requestId, batchId,
                                  stateHash >>)
         /\ requestedCts' = [requestedCts EXCEPT ![batchId] = cts]
         /\ hasRequested' = [hasRequested EXCEPT ![sender] = TRUE]
         /\ UNCHANGED << owner, isProvider, paused, cooldownSeconds,
                         lastSubmissionTime, currentBatchId, isBatchOpen,
                         lemmings, lemmingCountInBatch, blockTimestamp,
                         submissions, hasSubmitted >>

\* mutant: a new request also refreshes the state hash stored for the older
\* requests of the same batch
requestBatchDecryption_RefreshesBatch(sender, batchId) ==
    LET numLemmings == lemmingCountInBatch[batchId]
        cts == BatchCiphertexts(batchId, numLemmings)
        stateHash == _hashCiphertexts(cts)
        requestId == OracleRequestId
    IN
    IF requestBatchDecryptionError(sender, batchId) # NoError THEN Reverted
    ELSE /\ requestCounter < MaxRequests
         /\ requestCounter' = requestId
         /\ decryptionContexts' =
                [r \in RequestIds |->
                    IF r = requestId
                    THEN [batchId |-> batchId, stateHash |-> stateHash,
                          processed |-> FALSE]
                    ELSE IF decryptionContexts[r].batchId = batchId
                    THEN [decryptionContexts[r] EXCEPT !.stateHash = stateHash]
                    ELSE decryptionContexts[r]]
         /\ lastDecryptionRequestTime' =
                [lastDecryptionRequestTime EXCEPT ![sender] = blockTimestamp]
         /\ Returned("requestBatchDecryption", sender,
                               << "DecryptionRequested", requestId, batchId,
                                  stateHash >>)
         /\ requestedCts' = [requestedCts EXCEPT ![requestId] = cts]
         /\ hasRequested' = [hasRequested EXCEPT ![sender] = TRUE]
         /\ UNCHANGED << owner, isProvider, paused, cooldownSeconds,
                         lastSubmissionTime, currentBatchId, isBatchOpen,
                         lemmings, lemmingCountInBatch, blockTimestamp,
                         submissions, hasSubmitted >>

requestBatchDecryption(sender, batchId) ==
    LET numLemmings == lemmingCountInBatch[batchId]
        cts == BatchCiphertexts(batchId, numLemmings)
        stateHash == _hashCiphertexts(cts)
        requestId == OracleRequestId
    IN
    IF requestBatchDecryptionError(sender, batchId) # NoError THEN Reverted
    ELSE /\ requestCounter < MaxRequests
         /\ requestCounter' = requestId
         /\ decryptionContexts' =
                [decryptionContexts EXCEPT ![requestId] =
                    [batchId |-> batchId, stateHash |-> stateHash,
                     processed |-> FALSE]]
         /\ lastDecryptionRequestTime' =
                [lastDecryptionRequestTime EXCEPT ![sender] = blockTimestamp]
         /\ Returned("requestBatchDecryption", sender,
                               << "DecryptionRequested", requestId, batchId,
                                  stateHash >>)
         /\ requestedCts' = [requestedCts EXCEPT ![requestId] = cts]
         /\ hasRequested' = [hasRequested EXCEPT ![sender] = TRUE]
         /\ UNCHANGED << owner, isProvider, paused, cooldownSeconds,
                         lastSubmissionTime, currentBatchId, isBatchOpen,
                         lemmings, lemmingCountInBatch, blockTimestamp,
                         submissions, hasSubmitted >>

\* cleartexts.slice(start, 32) reverts when the slice runs past the end
SliceInBounds(cleartexts, start) == start + 32 <= ByteLength(cleartexts)

\* mutant: every slice is taken at offset 0
DecodeWord_FromStart(cleartexts, start) == cleartexts.words[1]

\* abi.decode(cleartexts.slice(start, 32), (uint256)), start a multiple of 32
DecodeWord(cleartexts, start) == cleartexts.words[(start \div 32) + 1]

\* mutant: the callback carries the whenNotPaused modifier
myCallbackError_WhenNotPaused(requestId, cleartexts, proofValid) ==
    LET context == decryptionContexts[requestId]
        numLemmings == lemmingCountInBatch[context.batchId]
        currentHash ==
            _hashCiphertexts(BatchCiphertexts(context.batchId, numLemmings))
    IN
    IF whenNotPaused # NoError THEN whenNotPaused
    ELSE IF context.processed THEN "ReplayAttempt"
    ELSE IF numLemmings = 0 THEN "InvalidBatchId"
    ELSE IF currentHash # context.stateHash THEN "StateMismatch"
    ELSE IF ~proofValid THEN "InvalidSignatures"
    ELSE IF \E i \in 0..(numLemmings - 1) :
                \E f \in 0..2 : ~SliceInBounds(cleartexts, 32 * (3 * i + f))
         THEN "SliceOutOfBounds"
    ELSE NoError

\* mutant: the callback without the comparison of the state hash
myCallbackError_NoStateCheck(requestId, cleartexts, proofValid) ==
    LET context == decryptionContexts[requestId]
        numLemmings == lemmingCountInBatch[context.batchId]
    IN
    IF context.processed THEN "ReplayAttempt"
    ELSE IF numLemmings = 0 THEN "InvalidBatchId"
    ELSE IF ~proofValid THEN "InvalidSignatures"
    ELSE IF \E i \in 0..(numLemmings - 1) :
                \E f \in 0..2 : ~SliceInBounds(cleartexts, 32 * (3 * i + f))
         THEN "SliceOutOfBounds"
    ELSE NoError

\* mutant: the callback without the replay guard
myCallbackError_NoReplayGuard(requestId, cleartexts, proofValid) ==
    LET context == decryptionContexts[requestId]
        numLemmings == lemmingCountInBatch[context.batchId]
        currentHash ==
            _hashCiphertexts(BatchCiphertexts(context.batchId, numLemmings))
    IN
    IF numLemmings = 0 THEN "InvalidBatchId"
    ELSE IF currentHash # context.stateHash THEN "StateMismatch"
    ELSE IF ~proofValid THEN "InvalidSignatures"
    ELSE IF \E i \in 0..(numLemmings - 1) :
                \E f \in 0..2 : ~SliceInBounds(cleartexts, 32 * (3 * i + f))
         THEN "SliceOutOfBounds"
    ELSE NoError

\* mutant: the proof is verified before the state hash is compared
myCallbackError_ProofFirst(requestId, cleartexts, proofValid) ==
    LET context == decryptionContexts[requestId]
        numLemmings == lemmingCountInBatch[context.batchId]
        currentHash ==
            _hashCiphertexts(BatchCiphertexts(context.batchId, numLemmings))
    IN
    IF context.processed THEN "ReplayAttempt"
    ELSE IF numLemmings = 0 THEN "InvalidBatchId"
    ELSE IF ~proofValid THEN "InvalidSignatures"
    ELSE IF currentHash # context.stateHash THEN "StateMismatch"
    ELSE IF \E i \in 0..(numLemmings - 1) :
                \E f \in 0..2 : ~SliceInBounds(cleartexts, 32 * (3 * i + f))
         THEN "SliceOutOfBounds"
    ELSE NoError

\* the checks of myCallback in the order they run
myCallbackError(requestId, cleartexts, proofValid) ==
    LET context == decryptionContexts[requestId]
        numLemmings == lemmingCountInBatch[context.batchId]
        currentHash ==
            _hashCiphertexts(BatchCiphertexts(context.batchId, numLemmings))
    IN
    IF context.processed THEN "ReplayAttempt"
    ELSE IF numLemmings = 0 THEN "InvalidBatchId"
    ELSE IF currentHash # context.stateHash THEN "StateMismatch"
    ELSE IF ~proofValid THEN "InvalidSignatures"
    ELSE IF \E i \in 0..(numLemmings - 1) :
                \E f \in 0..2 : ~SliceInBounds(cleartexts, 32 * (3 * i + f))
         THEN "SliceOutOfBounds"
    ELSE NoError

\* mutant: the callback that returns emits its event without setting processed
myCallback_EmitsWithoutFlag(sender, requestId, cleartexts, proofValid) ==
    LET context == decryptionContexts[requestId]
        numLemmings == lemmingCountInBatch[context.batchId]
        abilities == [i \in 1..numLemmings |->
                         DecodeWord(cleartexts, 32 * (3 * (i - 1)))]
        xs == [i \in 1..numLemmings |->
                  DecodeWord(cleartexts, 32 * (3 * (i - 1) + 1))]
        ys == [i \in 1..numLemmings |->
                  DecodeWord(cleartexts, 32 * (3 * (i - 1) + 2))]
    IN
    IF myCallbackError(requestId, cleartexts, proofValid) # NoError
    THEN Reverted
    ELSE /\ Returned("myCallback", sender,
                               << "DecryptionCompleted", requestId,
                                  context.batchId, abilities, xs, ys >>)
         /\ UNCHANGED << storage, environment, history >>

\* mutant: the callback that returns deletes the context before flagging it
myCallback_DeletesContext(sender, requestId, cleartexts, proofValid) ==
    LET context == decryptionContexts[requestId]
        numLemmings == lemmingCountInBatch[context.batchId]
        abilities == [i \in 1..numLemmings |->
                         DecodeWord(cleartexts, 32 * (3 * (i - 1)))]
        xs == [i \in 1..numLemmings |->
                  DecodeWord(cleartexts, 32 * (3 * (i - 1) + 1))]
        ys == [i \in 1..numLemmings |->
                  DecodeWord(cleartexts, 32 * (3 * (i - 1) + 2))]
    IN
    IF myCallbackError(requestId, cleartexts, proofValid) # NoError
    THEN Reverted
    ELSE /\ decryptionContexts' =
                [decryptionContexts EXCEPT ![requestId] =
                    [ZeroContext EXCEPT !.processed = TRUE]]
         /\ Returned("myCallback", sender,
                               << "DecryptionCompleted", requestId,
                                  context.batchId, abilities, xs, ys >>)
         /\ UNCHANGED << owner, isProvider, paused, cooldownSeconds,
                         lastSubmissionTime, lastDecryptionRequestTime,
                         currentBatchId, isBatchOpen, lemmings,
                         lemmingCountInBatch, environment, history >>

\* mutant: a callback stopped while decoding leaves processed set
myCallback_BurnsOnMalformed(sender, requestId, cleartexts, proofValid) ==
    LET context == decryptionContexts[requestId]
        numLemmings == lemmingCountInBatch[context.batchId]
        abilities == [i \in 1..numLemmings |->
                         DecodeWord(cleartexts, 32 * (3 * (i - 1)))]
        xs == [i \in 1..numLemmings |->
                  DecodeWord(cleartexts, 32 * (3 * (i - 1) + 1))]
        ys == [i \in 1..numLemmings |->
                  DecodeWord(cleartexts, 32 * (3 * (i - 1) + 2))]
    IN
    IF myCallbackError(requestId, cleartexts, proofValid) = "SliceOutOfBounds"
    THEN /\ decryptionContexts' =
                [decryptionContexts EXCEPT ![requestId].processed = TRUE]
         /\ UNCHANGED << owner, isProvider, paused, cooldownSeconds,
                         lastSubmissionTime, lastDecryptionRequestTime,
                         currentBatchId, isBatchOpen, lemmings,
                         lemmingCountInBatch, environment, result, history,
                         steps >>
    ELSE IF myCallbackError(requestId, cleartexts, proofValid) # NoError
    THEN Reverted
    ELSE /\ decryptionContexts' =
                [decryptionContexts EXCEPT ![requestId].processed = TRUE]
         /\ Returned("myCallback", sender,
                               << "DecryptionCompleted", requestId,
                                  context.batchId, abilities, xs, ys >>)
         /\ UNCHANGED << owner, isProvider, paused, cooldownSeconds,
                         lastSubmissionTime, lastDecryptionRequestTime,
                         currentBatchId, isBatchOpen, lemmings,
                         lemmingCountInBatch, environment, history >>

\* mutant: a callback stopped by the proof check leaves processed set
myCallback_KeepsFlagOnBadProof(sender, requestId, cleartexts, proofValid) ==
    LET context == decryptionContexts[requestId]
        numLemmings == lemmingCountInBatch[context.batchId]
        abilities == [i \in 1..numLemmings |->
                         DecodeWord(cleartexts, 32 * (3 * (i - 1)))]
        xs == [i \in 1..numLemmings |->
                  DecodeWord(cleartexts, 32 * (3 * (i - 1) + 1))]
        ys == [i \in 1..numLemmings |->
                  DecodeWord(cleartexts, 32 * (3 * (i - 1) + 2))]
    IN
    IF myCallbackError(requestId, cleartexts, proofValid) = "InvalidSignatures"
    THEN /\ decryptionContexts' =
                [decryptionContexts EXCEPT ![requestId].processed = TRUE]
         /\ UNCHANGED << owner, isProvider, paused, cooldownSeconds,
                         lastSubmissionTime, lastDecryptionRequestTime,
                         currentBatchId, isBatchOpen, lemmings,
                         lemmingCountInBatch, environment, result, history,
                         steps >>
    ELSE IF myCallbackError(requestId, cleartexts, proofValid) # NoError
    THEN Reverted
    ELSE /\ decryptionContexts' =
                [decryptionContexts EXCEPT ![requestId].processed = TRUE]
         /\ Returned("myCallback", sender,
                               << "DecryptionCompleted", requestId,
                                  context.batchId, abilities, xs, ys >>)
         /\ UNCHANGED << owner, isProvider, paused, cooldownSeconds,
                         lastSubmissionTime, lastDecryptionRequestTime,
                         currentBatchId, isBatchOpen, lemmings,
                         lemmingCountInBatch, environment, history >>

\* mutant: finalizing a request marks every request of its batch processed
myCallback_FinalizesBatch(sender, requestId, cleartexts, proofValid) ==
    LET context == decryptionContexts[requestId]
        numLemmings == lemmingCountInBatch[context.batchId]
        abilities == [i \in 1..numLemmings |->
                         DecodeWord(cleartexts, 32 * (3 * (i - 1)))]
        xs == [i \in 1..numLemmings |->
                  DecodeWord(cleartexts, 32 * (3 * (i - 1) + 1))]
        ys == [i \in 1..numLemmings |->
                  DecodeWord(cleartexts, 32 * (3 * (i - 1) + 2))]
    IN
    IF myCallbackError(requestId, cleartexts, proofValid) # NoError
    THEN Reverted
    ELSE /\ decryptionContexts' =
                [r \in RequestIds |->
                    IF decryptionContexts[r].batchId = context.batchId
                    THEN [decryptionContexts[r] EXCEPT !.processed = TRUE]
                    ELSE decryptionContexts[r]]
         /\ Returned("myCallback", sender,
                               << "DecryptionCompleted", requestId,
                                  context.batchId, abilities, xs, ys >>)
         /\ UNCHANGED << owner, isProvider, paused, cooldownSeconds,
                         lastSubmissionTime, lastDecryptionRequestTime,
                         currentBatchId, isBatchOpen, lemmings,
                         lemmingCountInBatch, environment, history >>

myCallback(sender, requestId, cleartexts, proofValid) ==
    LET context == decryptionContexts[requestId]
        numLemmings == lemmingCountInBatch[context.batchId]
        abilities == [i \in 1..numLemmings |->
                         DecodeWord(cleartexts, 32 * (3 * (i - 1)))]
        xs == [i \in 1..numLemmings |->
                  DecodeWord(cleartexts, 32 * (3 * (i - 1) + 1))]
        ys == [i \in 1..numLemmings |->
                  DecodeWord(cleartexts, 32 * (3 * (i - 1) + 2))]
    IN
    IF myCallbackError(requestId, cleartexts, proofValid) # NoError
    THEN Reverted
    ELSE /\ decryptionContexts' =
                [decryptionContexts EXCEPT ![requestId].processed = TRUE]
         /\ Returned("myCallback", sender,
                               << "DecryptionCompleted", requestId,
                                  context.batchId, abilities, xs, ys >>)
         /\ UNCHANGED << owner, isProvider, paused, cooldownSeconds,
                         lastSubmissionTime, lastDecryptionRequestTime,
                         currentBatchId, isBatchOpen, lemmings,
                         lemmingCountInBatch, environment, history >>

(***************************************************************************)
(* The chain: time passes between transactions.                            *)
(***************************************************************************)
AdvanceTime ==
    /\ blockTimestamp < MaxTime
    /\ steps < MaxSteps
    /\ steps' = steps + 1
    /\ blockTimestamp' = blockTimestamp + 1
    /\ UNCHANGED << storage, requestCounter, result, history >>

\* The calls take ids a caller can tell apart: ids beyond the next one to be
\* allocated were never written and behave like it.
BatchIdInputs == { b \in BatchIds : b <= currentBatchId + 1 }
RequestIdInputs == { r \in RequestIds : r <= requestCounter + 1 }

Next ==
    \/ \E sender \in Principals, newOwner \in Principals \cup {ZeroAddress} :
           transferOwnership(sender, newOwner)
    \/ \E sender \in Principals, provider \in Principals :
           addProvider(sender, provider)
    \/ \E sender \in Principals, provider \in Principals :
           removeProvider(sender, provider)
    \/ \E sender \in Principals, _paused \in BOOLEAN :
           setPaused(sender, _paused)
    \/ \E sender \in Principals, newCooldownSeconds \in CooldownInputs :
           setCooldownSeconds(sender, newCooldownSeconds)
    \/ \E sender \in Principals : openBatch(sender)
    \/ \E sender \in Principals, batchId \in BatchIdInputs :
           closeBatch(sender, batchId)
    \/ \E sender \in Principals, batchId \in BatchIdInputs,
          encrypted \in LemmingInputs :
           submitLemming(sender, batchId, encrypted)
    \/ \E sender \in Principals, batchId \in BatchIdInputs :
           requestBatchDecryption(sender, batchId)
    \/ \E requestId \in RequestIdInputs, cleartexts \in CleartextInputs,
          proofValid \in BOOLEAN :
           myCallback(Relayer, requestId, cleartexts, proofValid)
    \/ AdvanceTime

Spec == Init /\ [][Next]_vars

(***************************************************************************)
(* Properties.                                                             *)
(***************************************************************************)
\* this step is a call of op that returned
Called(op) ==
    /\ steps' # steps
    /\ blockTimestamp' = blockTimestamp
    /\ result'.op = op

\* the handles a batch holds now, in record-id order
CurrentCts(batchId) == BatchCiphertexts(batchId, lemmingCountInBatch[batchId])

\* this step is a myCallback that finalized request r
Finalizes(r) ==
    /\ ~decryptionContexts[r].processed
    /\ decryptionContexts'[r].processed

\* C1: whenever a callback finalizes a request (processed goes to true), the
\* handle sequence of the request's batch at that moment is the sequence the
\* batch held when the request was issued.
C1_FinalizeOnRequestedSequence ==
    [][\A r \in RequestIds :
          Finalizes(r) =>
              /\ requestedCts[r] # << >>
              /\ CurrentCts(decryptionContexts[r].batchId) = requestedCts[r]]_vars

\* the last call finalized a request on a batch that still holds the one
\* record that was requested
C1_Witness ==
    /\ result.op = "myCallback"
    /\ \E r \in RequestIds :
          /\ decryptionContexts[r].processed
          /\ result.event[2] = r
          /\ CurrentCts(decryptionContexts[r].batchId) = requestedCts[r]
          /\ Len(requestedCts[r]) = 3

\* C2: once a request is finalized, every callback with its id reverts with
\* ReplayAttempt, whatever cleartexts and proof it carries, so that no later
\* step is a returning callback for it: no second DecryptionCompleted.
C2_ReplayRejected ==
    /\ [](\A r \in RequestIds, c \in CleartextInputs, p \in BOOLEAN :
             decryptionContexts[r].processed =>
                 myCallbackError(r, c, p) = "ReplayAttempt")
    /\ [][\A r \in RequestIds :
             decryptionContexts[r].processed =>
                 ~(Called("myCallback") /\ result'.event[2] = r)]_vars

\* a request was finalized and its batch, still holding the requested
\* records, was closed afterwards
C2_Witness ==
    /\ result.op = "closeBatch"
    /\ \E r \in RequestIds :
          /\ decryptionContexts[r].processed
          /\ decryptionContexts[r].batchId = result.event[2]
          /\ CurrentCts(decryptionContexts[r].batchId) = requestedCts[r]

\* the record set of request r's batch grew after r was issued
Drifted(r) ==
    /\ requestedCts[r] # << >>
    /\ 3 * lemmingCountInBatch[decryptionContexts[r].batchId]
           > Len(requestedCts[r])

\* C3: when a record was submitted to a request's batch after the request was
\* issued and before its callback, the callback reverts with StateMismatch,
\* also when the proof is valid, and processed stays false.
C3_DriftRejected ==
    /\ [](\A r \in RequestIds, c \in CleartextInputs, p \in BOOLEAN :
             (Drifted(r) /\ ~decryptionContexts[r].processed) =>
                 myCallbackError(r, c, p) = "StateMismatch")
    /\ [][\A r \in RequestIds :
             (Drifted(r) /\ ~decryptionContexts[r].processed) =>
                 ~decryptionContexts'[r].processed]_vars

\* a record was just submitted to the still-open batch of a pending request
C3_Witness ==
    /\ result.op = "submitLemming"
    /\ \E r \in RequestIds :
          /\ Drifted(r)
          /\ ~decryptionContexts[r].processed
          /\ decryptionContexts[r].batchId = result.event[3]
          /\ isBatchOpen[decryptionContexts[r].batchId]
          /\ Len(requestedCts[r]) >= 3

\* C4: a request's processed flag never returns to false (so it goes from
\* false to true at most once), and the only step that changes it is a
\* myCallback for that id that returns; every other step leaves every flag as
\* it was.
C4_ProcessedSetOnceByCallback ==
    [][\A r \in RequestIds :
          /\ decryptionContexts[r].processed => decryptionContexts'[r].processed
          /\ decryptionContexts'[r].processed # decryptionContexts[r].processed =>
                /\ Called("myCallback")
                /\ result'.event[2] = r
                /\ \E c \in CleartextInputs : myCallback(Relayer, r, c, TRUE)]_vars

\* a finalized request kept its flag while a later request was issued
C4_Witness ==
    /\ result.op = "requestBatchDecryption"
    /\ \E r \in RequestIds :
          /\ decryptionContexts[r].processed
          /\ result.event[2] # r
          /\ ~decryptionContexts[result.event[2]].processed

\* C5: a submitLemming that returns assigns the id count + 1 and moves the
\* batch's count to it, leaving the batch's earlier records and every other
\* batch's count alone; no other step changes a count; and each batch's count
\* equals the number of submitLemming calls to it that returned.
C5_DenseRecordIds ==
    [][/\ \A b \in BatchIds : lemmingCountInBatch'[b] = submissions'[b]
       /\ Called("submitLemming") =>
             LET b == result'.event[3]
                 lemmingId == result'.event[4]
             IN  /\ lemmingId = lemmingCountInBatch[b] + 1
                 /\ lemmingCountInBatch'[b] = lemmingId
                 /\ lemmings'[b][lemmingId] \in LemmingInputs
                 /\ \A i \in 1..lemmingCountInBatch[b] :
                        lemmings'[b][i] = lemmings[b][i]
                 /\ \A other \in BatchIds \ {b} :
                        lemmingCountInBatch'[other] = lemmingCountInBatch[other]
       /\ ~Called("submitLemming") =>
             lemmingCountInBatch' = lemmingCountInBatch]_vars

\* a batch received records 1 and 2 from two different providers
C5_Witness ==
    /\ result.op = "submitLemming"
    /\ result.event[4] = 2
    /\ lemmingCountInBatch[result.event[3]] = 2
    /\ \A a \in Principals : hasSubmitted[a]

\* C6: submitLemming by an account that is not a provider reverts with
\* NotProvider whatever the batch, so that no step is a returning submission
\* of such an account and its cooldown timestamp stays as it was.
C6_SubmitterGating ==
    /\ [](\A sender \in Principals, b \in BatchIds :
             ~isProvider[sender] =>
                 submitLemmingError(sender, b) = "NotProvider")
    /\ [][\A sender \in Principals :
             ~isProvider[sender] =>
                 /\ ~(Called("submitLemming") /\ result'.caller = sender)
                 /\ lastSubmissionTime'[sender] = lastSubmissionTime[sender]]_vars

\* the owner, a provider who submitted, was just removed while a batch is open
C6_Witness ==
    /\ result.op = "removeProvider"
    /\ result.event[2] = owner
    /\ hasSubmitted[owner]
    /\ ~isProvider[owner]
    /\ \E b \in BatchIds : isBatchOpen[b]

\* the eight functions that carry onlyOwner
OwnerOnlyFunctions ==
    { "transferOwnership", "addProvider", "removeProvider", "setPaused",
      "setCooldownSeconds", "openBatch", "closeBatch",
      "requestBatchDecryption" }

\* C7: each of the eight owner-only functions, called by an account other
\* than the owner, reverts with NotOwner, so that every returning call of
\* one of them was sent by the owner.
C7_OwnerGating ==
    /\ [](\A sender \in Principals, b \in BatchIds :
             sender # owner =>
                 /\ transferOwnershipError(sender) = "NotOwner"
                 /\ addProviderError(sender) = "NotOwner"
                 /\ removeProviderError(sender) = "NotOwner"
                 /\ setPausedError(sender) = "NotOwner"
                 /\ setCooldownSecondsError(sender) = "NotOwner"
                 /\ openBatchError(sender) = "NotOwner"
                 /\ closeBatchError(sender, b) = "NotOwner"
                 /\ requestBatchDecryptionError(sender, b) = "NotOwner")
    /\ [][\A op \in OwnerOnlyFunctions :
             Called(op) => result'.caller = owner]_vars

\* a provider that is not the owner just submitted a record: the batch is
\* open and can be decrypted, for the owner
C7_Witness ==
    /\ result.op = "submitLemming"
    /\ result.caller # owner
    /\ isProvider[result.caller]
    /\ isBatchOpen[result.event[3]]
    /\ ~paused

\* C8 as stated: while paused, each of the nine listed functions, called by
\* an account that holds the function's role, reverts with PausedState.
C8_Original ==
    paused =>
        /\ \A sender \in Principals, b \in BatchIds :
              /\ sender = owner =>
                    /\ openBatchError(sender) = "PausedState"
                    /\ closeBatchError(sender, b) = "PausedState"
                    /\ requestBatchDecryptionError(sender, b) = "PausedState"
                    /\ transferOwnershipError(sender) = "PausedState"
                    /\ addProviderError(sender) = "PausedState"
                    /\ removeProviderError(sender) = "PausedState"
                    /\ setCooldownSecondsError(sender) = "PausedState"
              /\ isProvider[sender] =>
                    submitLemmingError(sender, b) = "PausedState"
        /\ \A r \in RequestIds, c \in CleartextInputs, p \in BOOLEAN :
              myCallbackError(r, c, p) = "PausedState"

\* what the contract does for C8: while paused, openBatch and
\* requestBatchDecryption by the
\* owner and submitLemming by a provider revert with PausedState (an account
\* without the role gets the role error first), so that no step is a returning
\* call of one of the three; no other function reverts with PausedState, and
\* none does while the contract is not paused.
C8_PauseGatesThreeFunctions ==
    /\ [](\A sender \in Principals, b \in BatchIds :
             /\ paused =>
                   /\ openBatchError(sender) =
                          (IF sender = owner THEN "PausedState" ELSE "NotOwner")
                   /\ requestBatchDecryptionError(sender, b) =
                          (IF sender = owner THEN "PausedState" ELSE "NotOwner")
                   /\ submitLemmingError(sender, b) =
                          (IF isProvider[sender] THEN "PausedState"
                                                 ELSE "NotProvider")
             /\ ~paused =>
                   /\ openBatchError(sender) # "PausedState"
                   /\ requestBatchDecryptionError(sender, b) # "PausedState"
                   /\ submitLemmingError(sender, b) # "PausedState"
             /\ closeBatchError(sender, b) # "PausedState"
             /\ transferOwnershipError(sender) # "PausedState"
             /\ addProviderError(sender) # "PausedState"
             /\ removeProviderError(sender) # "PausedState"
             /\ setPausedError(sender) # "PausedState"
             /\ setCooldownSecondsError(sender) # "PausedState")
    /\ [](\A r \in RequestIds, c \in CleartextInputs, p \in BOOLEAN :
             myCallbackError(r, c, p) # "PausedState")
    /\ [][paused =>
             /\ ~Called("openBatch")
             /\ ~Called("submitLemming")
             /\ ~Called("requestBatchDecryption")]_vars

\* the owner just paused the contract while a provider is registered and an
\* open batch holds a record
C8_Witness ==
    /\ paused
    /\ result.op = "setPaused"
    /\ \E a \in Principals : isProvider[a]
    /\ \E b \in BatchIds : isBatchOpen[b] /\ lemmingCountInBatch[b] > 0

\* the verdict the claim gives an attempt made now by an account whose last
\* action of the class returned at time last
CooldownVerdict(err, last) ==
    IF UintLess(blockTimestamp - last, cooldownSeconds)
    THEN err = "CooldownActive"
    ELSE err # "CooldownActive"

\* C9 as stated: once an account's submitLemming (requestBatchDecryption) has
\* returned at time t, its next attempt at time t2, role and pause checks
\* passed, reverts with CooldownActive when t2 - t < cooldownSeconds and
\* passes the cooldown check when t2 - t >= cooldownSeconds.
C9_Original ==
    \A sender \in Principals, b \in BatchIds :
        /\ (hasSubmitted[sender] /\ isProvider[sender] /\ ~paused) =>
               CooldownVerdict(submitLemmingError(sender, b),
                               lastSubmissionTime[sender])
        /\ (hasRequested[sender] /\ sender = owner /\ ~paused) =>
               CooldownVerdict(requestBatchDecryptionError(sender, b),
                               lastDecryptionRequestTime[sender])

\* C10 as stated: with a finite cooldown window set, a provider that never
\* submitted, submitting to an open batch at a time smaller than
\* cooldownSeconds, passes every check and gets a record id.
C10_Original ==
    \A sender \in Principals, b \in BatchIds :
        (/\ ~hasSubmitted[sender]
         /\ isProvider[sender]
         /\ ~paused
         /\ isBatchOpen[b]
         /\ cooldownSeconds # MaxUint256
         /\ UintLess(blockTimestamp, cooldownSeconds)) =>
            submitLemmingError(sender, b) = NoError

\* C11: a call that passes the cooldown check and then reverts (submitLemming
\* on a batch that is not open, requestBatchDecryption on a batch without
\* records) does not move the caller's cooldown: the same caller's call on any
\* other batch is not stopped by CooldownActive, and a last-action timestamp
\* changes only in a returning call of its class by that account, to the
\* current time.
C11_CooldownRecordedOnSuccessOnly ==
    /\ [](\A sender \in Principals, b \in BatchIds, other \in BatchIds :
             /\ submitLemmingError(sender, b) = "BatchClosedOrInvalid" =>
                    submitLemmingError(sender, other) # "CooldownActive"
             /\ requestBatchDecryptionError(sender, b) = "InvalidBatchId" =>
                    requestBatchDecryptionError(sender, other)
                        # "CooldownActive")
    /\ [][\A a \in Principals :
             /\ lastSubmissionTime'[a] # lastSubmissionTime[a] =>
                    /\ Called("submitLemming")
                    /\ result'.caller = a
                    /\ lastSubmissionTime'[a] = blockTimestamp
             /\ lastDecryptionRequestTime'[a] # lastDecryptionRequestTime[a] =>
                    /\ Called("requestBatchDecryption")
                    /\ result'.caller = a
                    /\ lastDecryptionRequestTime'[a] = blockTimestamp]_vars

\* with a window of 1 and the clock at 1, a provider that never submitted is
\* stopped on a batch that is not open and passes every check on an open one
C11_Witness ==
    /\ cooldownSeconds = 1
    /\ blockTimestamp = 1
    /\ \E sender \in Principals, b \in BatchIds, other \in BatchIds :
          /\ lastSubmissionTime[sender] = 0
          /\ submitLemmingError(sender, b) = "BatchClosedOrInvalid"
          /\ submitLemmingError(sender, other) = NoError

\* batch b was opened and then closed
WasClosed(b) == b \in 1..currentBatchId /\ ~isBatchOpen[b]

\* C12: once a batch is closed, submitLemming to it never returns (it reverts
\* with BatchClosedOrInvalid when the role, pause and cooldown checks pass),
\* its record count stays as it is, no step opens it again, and openBatch
\* only ever opens the id that follows currentBatchId.
C12_ClosedBatchStaysClosed ==
    /\ [](\A b \in BatchIds, sender \in Principals :
             WasClosed(b) =>
                 /\ submitLemmingError(sender, b) # NoError
                 /\ FirstError(<< onlyProvider(sender), whenNotPaused,
                                  respectCooldown(sender, lastSubmissionTime) >>)
                        = NoError =>
                        submitLemmingError(sender, b) = "BatchClosedOrInvalid")
    /\ [][/\ \A b \in BatchIds :
                WasClosed(b) =>
                    /\ ~isBatchOpen'[b]
                    /\ lemmingCountInBatch'[b] = lemmingCountInBatch[b]
          /\ currentBatchId' >= currentBatchId
          /\ Called("openBatch") =>
                /\ result'.event[2] = currentBatchId + 1
                /\ currentBatchId' = currentBatchId + 1
                /\ \A b \in BatchIds \ {currentBatchId + 1} :
                       isBatchOpen'[b] = isBatchOpen[b]]_vars

\* a batch holding a record was just closed, a second batch was opened, and a
\* provider that passes the earlier checks is stopped on the closed one
C12_Witness ==
    /\ result.op = "openBatch"
    /\ \E b \in BatchIds, sender \in Principals :
          /\ WasClosed(b)
          /\ b < result.event[2]
          /\ lemmingCountInBatch[b] > 0
          /\ submitLemmingError(sender, b) = "BatchClosedOrInvalid"

\* request r was issued and is not finalized
Pending(r) == requestedCts[r] # << >> /\ ~decryptionContexts[r].processed

\* the cleartexts that hold exactly three words for each of n records
ExactCleartexts(n) ==
    { c \in CleartextInputs : ByteLength(c) = 32 * 3 * n }

\* C13: a closed batch with at least one record can still be decrypted:
\* requestBatchDecryption on it passes once the role, pause and cooldown
\* checks pass, and a callback with a valid proof and three words per record
\* passes every check for a pending request on it whose records are those
\* requested; this holds whether the batch was closed before the request or
\* after it.
C13_ClosedBatchDecryptable ==
    /\ \A b \in BatchIds, sender \in Principals :
          (/\ WasClosed(b)
           /\ lemmingCountInBatch[b] > 0
           /\ FirstError(<< onlyOwner(sender), whenNotPaused,
                            respectCooldown(sender,
                                            lastDecryptionRequestTime) >>)
                  = NoError) =>
              requestBatchDecryptionError(sender, b) = NoError
    /\ \A r \in RequestIds :
          (/\ Pending(r)
           /\ WasClosed(decryptionContexts[r].batchId)
           /\ ~Drifted(r)) =>
              \A c \in ExactCleartexts(
                          lemmingCountInBatch[decryptionContexts[r].batchId]) :
                  myCallbackError(r, c, TRUE) = NoError

\* the last call finalized a request on a batch that is closed
C13_Witness ==
    /\ result.op = "myCallback"
    /\ WasClosed(result.event[3])
    /\ decryptionContexts[result.event[2]].processed
    /\ Len(result.event[4]) = lemmingCountInBatch[result.event[3]]

\* C14: the handles of a record that exists never change, no batch's record
\* count decreases, and a step that changes any record or count is a
\* submitLemming that returns.
C14_AppendOnlyRecords ==
    [][/\ \A b \in BatchIds :
             /\ lemmingCountInBatch'[b] >= lemmingCountInBatch[b]
             /\ \A i \in 1..lemmingCountInBatch[b] :
                    lemmings'[b][i] = lemmings[b][i]
       /\ (lemmings' # lemmings \/ lemmingCountInBatch' # lemmingCountInBatch)
              => Called("submitLemming")]_vars

\* a batch that holds two records was just closed
C14_Witness ==
    /\ result.op = "closeBatch"
    /\ lemmingCountInBatch[result.event[2]] = 2
    /\ lemmings[result.event[2]][1] \in LemmingInputs
    /\ lemmings[result.event[2]][2] \in LemmingInputs

\* this step is a call, by the sender that `result` names, that passes every
\* check of its function
PassingCall ==
    LET sender == result'.caller IN
    \/ /\ Called("transferOwnership")
       /\ transferOwnershipError(sender) = NoError
       /\ \E newOwner \in Principals \cup {ZeroAddress} :
              transferOwnership(sender, newOwner)
    \/ /\ Called("addProvider")
       /\ addProviderError(sender) = NoError
       /\ \E provider \in Principals : addProvider(sender, provider)
    \/ /\ Called("removeProvider")
       /\ removeProviderError(sender) = NoError
       /\ \E provider \in Principals : removeProvider(sender, provider)
    \/ /\ Called("setPaused")
       /\ setPausedError(sender) = NoError
       /\ \E _paused \in BOOLEAN : setPaused(sender, _paused)
    \/ /\ Called("setCooldownSeconds")
       /\ setCooldownSecondsError(sender) = NoError
       /\ \E newCooldownSeconds \in CooldownInputs :
              setCooldownSeconds(sender, newCooldownSeconds)
    \/ /\ Called("openBatch")
       /\ openBatchError(sender) = NoError
       /\ openBatch(sender)
    \/ /\ Called("closeBatch")
       /\ closeBatchError(sender, result'.event[2]) = NoError
       /\ closeBatch(sender, result'.event[2])
    \/ /\ Called("submitLemming")
       /\ submitLemmingError(sender, result'.event[3]) = NoError
       /\ \E encrypted \in LemmingInputs :
              submitLemming(sender, result'.event[3], encrypted)
    \/ /\ Called("requestBatchDecryption")
       /\ requestBatchDecryptionError(sender, result'.event[3]) = NoError
       /\ requestBatchDecryption(sender, result'.event[3])
    \/ /\ Called("myCallback")
       /\ \E cleartexts \in CleartextInputs :
              /\ myCallbackError(result'.event[2], cleartexts, TRUE) = NoError
              /\ myCallback(sender, result'.event[2], cleartexts, TRUE)

\* C15: a call that reverts, with whichever error, changes no variable and
\* emits no event: every step that changes anything is the advance of the
\* clock or a call that passes every check of its function, returns and emits
\* its event.
C15_AllOrNothing ==
    [][\/ AdvanceTime
       \/ /\ PassingCall
          /\ steps' = steps + 1
          /\ result'.event # NoEvent]_vars

\* a state in which calls would revert with an error of each kind: role, pause,
\* batch, empty batch, request and proof
C15_Witness ==
    /\ paused
    /\ \E sender \in Principals, b \in BatchIds :
          /\ addProviderError(sender) = "NotOwner"
          /\ submitLemmingError(sender, b) = "PausedState"
          /\ closeBatchError(owner, b) = "BatchClosedOrInvalid"
    /\ \E r \in RequestIds :
          /\ Pending(r)
          /\ \A c \in CleartextInputs :
                 myCallbackError(r, c, FALSE) = "InvalidSignatures"

\* C16: for a pending request whose batch still holds the requested records,
\* a callback with a valid proof and exactly three words per record passes
\* every check; the callback that returns sets processed and emits
\* DecryptionCompleted with the request id, the batch id and, for each record
\* id i in ascending order, the words 3i-2, 3i-1 and 3i of the cleartexts as
\* its ability, x and y.
C16_EndToEndFinalize ==
    /\ [](\A r \in RequestIds :
             (Pending(r) /\ ~Drifted(r)) =>
                 \A c \in ExactCleartexts(
                           lemmingCountInBatch[decryptionContexts[r].batchId]) :
                     myCallbackError(r, c, TRUE) = NoError)
    /\ [][Called("myCallback") =>
             LET r == result'.event[2]
                 b == result'.event[3]
                 n == lemmingCountInBatch[b]
             IN  /\ result'.event[1] = "DecryptionCompleted"
                 /\ Pending(r)
                 /\ decryptionContexts'[r].processed
                 /\ b = decryptionContexts[r].batchId
                 /\ Len(result'.event[4]) = n
                 /\ Len(result'.event[5]) = n
                 /\ Len(result'.event[6]) = n
                 /\ \E c \in CleartextInputs :
                        /\ myCallback(Relayer, r, c, TRUE)
                        /\ \A i \in 1..n :
                               /\ result'.event[4][i] = c.words[3 * i - 2]
                               /\ result'.event[5][i] = c.words[3 * i - 1]
                               /\ result'.event[6][i] = c.words[3 * i]]_vars

\* the last call finalized a request on a batch of two records with the
\* cleartexts of six words
C16_Witness ==
    /\ result.op = "myCallback"
    /\ decryptionContexts[result.event[2]].processed
    /\ lemmingCountInBatch[result.event[3]] = 2
    /\ result.event[4] = << 101, 104 >>
    /\ result.event[5] = << 102, 105 >>
    /\ result.event[6] = << 103, 106 >>

\* no requestBatchDecryption has returned request id r
NeverIssued(r) == requestedCts[r] = << >>

\* C17 as stated: a callback for a request id that was never issued reverts
\* with the error of an unknown request, which the specification keeps apart
\* from the error of an invalid or empty batch (InvalidBatchId here).
C17_Original ==
    \A r \in RequestIds, c \in CleartextInputs, p \in BOOLEAN :
        NeverIssued(r) => myCallbackError(r, c, p) = "UnknownRequest"

\* what the contract does for C17: the callback reverts, with the error of
\* the empty batch, because the unwritten context names batch 0
C17_UnknownRequestGivesInvalidBatchId ==
    \A r \in RequestIds, c \in CleartextInputs, p \in BOOLEAN :
        NeverIssued(r) =>
            /\ decryptionContexts[r] = ZeroContext
            /\ myCallbackError(r, c, p) = "InvalidBatchId"

\* the error of a callback when the checks are taken in the order: request
\* known, not finalized, records as requested, proof valid, cleartexts long
\* enough to decode
OrderedCallbackError(r, c, p) ==
    IF NeverIssued(r) THEN "InvalidBatchId"
    ELSE IF decryptionContexts[r].processed THEN "ReplayAttempt"
    ELSE IF CurrentCts(decryptionContexts[r].batchId) # requestedCts[r]
         THEN "StateMismatch"
    ELSE IF ~p THEN "InvalidSignatures"
    ELSE IF ByteLength(c) < 32 * Len(requestedCts[r]) THEN "SliceOutOfBounds"
    ELSE NoError

\* C18: the error of a callback is that of the first failing step in the
\* order unknown request, replay, state hash, proof, decoding: a finalized
\* request whose batch has grown gives ReplayAttempt, a grown batch with an
\* invalid proof gives StateMismatch, an invalid proof with short cleartexts
\* gives InvalidSignatures.
C18_CallbackCheckOrder ==
    \A r \in RequestIds, c \in CleartextInputs, p \in BOOLEAN :
        myCallbackError(r, c, p) = OrderedCallbackError(r, c, p)

\* a request is finalized and its batch has grown since: a callback for it
\* with an invalid proof, whatever the cleartexts, is stopped as a replay
C18_Witness ==
    \E r \in RequestIds :
        /\ decryptionContexts[r].processed
        /\ Drifted(r)
        /\ \A c \in CleartextInputs :
               myCallbackError(r, c, FALSE) = "ReplayAttempt"

\* C19: a callback that reverts at the proof check or while decoding leaves
\* its request pending, and the request can still be finalized: while the
\* batch holds the requested records, a callback with a valid proof and
\* three words per record passes every check; a request stops being pending
\* only in a callback for it that returns.
C19_FailedFinalizeNotTerminal ==
    /\ [](\A r \in RequestIds, c \in CleartextInputs, p \in BOOLEAN :
             myCallbackError(r, c, p)
                 \in {"InvalidSignatures", "SliceOutOfBounds"} =>
                 /\ Pending(r)
                 /\ \A valid \in ExactCleartexts(
                                     lemmingCountInBatch[
                                         decryptionContexts[r].batchId]) :
                        myCallbackError(r, valid, TRUE) = NoError)
    /\ [][\A r \in RequestIds :
             (Pending(r) /\ ~Pending(r)') =>
                 /\ Called("myCallback")
                 /\ result'.event[2] = r
                 /\ \E c \in CleartextInputs :
                        /\ myCallbackError(r, c, TRUE) = NoError
                        /\ myCallback(Relayer, r, c, TRUE)]_vars

\* a request on a batch of one record was just issued: a callback with an
\* invalid proof, or with a valid proof and two words, is stopped
C19_Witness ==
    /\ result.op = "requestBatchDecryption"
    /\ Pending(result.event[2])
    /\ lemmingCountInBatch[result.event[3]] = 1
    /\ \E c \in ExactCleartexts(1) :
          myCallbackError(result.event[2], c, FALSE) = "InvalidSignatures"
    /\ \E c \in CleartextInputs :
          myCallbackError(result.event[2], c, TRUE) = "SliceOutOfBounds"

\* C20 as stated: for a pending request on an unchanged batch and a valid
\* proof, the callback reverts while decoding whenever the cleartexts are not
\* exactly three 32-byte words per record, shorter or longer.
C20_Original ==
    \A r \in RequestIds, c \in CleartextInputs :
        (/\ Pending(r)
         /\ ~Drifted(r)
         /\ ByteLength(c) # 32 * Len(requestedCts[r])) =>
            myCallbackError(r, c, TRUE) = "SliceOutOfBounds"

\* what the contract does for C20: cleartexts that are too short stop the
\* callback, cleartexts that are too long pass
C20_OnlyShortCleartextsRejected ==
    \A r \in RequestIds, c \in CleartextInputs :
        (Pending(r) /\ ~Drifted(r)) =>
            myCallbackError(r, c, TRUE) =
                (IF ByteLength(c) < 32 * Len(requestedCts[r])
                 THEN "SliceOutOfBounds" ELSE NoError)

\* C21: requestBatchDecryption on a batch without records, opened or never
\* allocated, never returns; it reverts with InvalidBatchId once the role,
\* pause and cooldown checks pass.  So every request that is issued is for a
\* batch with a record, and the oracle's counter, the contexts and the
\* request timestamps change only in a requestBatchDecryption that returns.
C21_EmptyBatchNotDecryptable ==
    /\ [](\A sender \in Principals, b \in BatchIds :
             lemmingCountInBatch[b] = 0 =>
                 /\ requestBatchDecryptionError(sender, b) # NoError
                 /\ FirstError(<< onlyOwner(sender), whenNotPaused,
                                  respectCooldown(sender,
                                      lastDecryptionRequestTime) >>)
                        = NoError =>
                        requestBatchDecryptionError(sender, b)
                            = "InvalidBatchId")
    /\ [][/\ Called("requestBatchDecryption") =>
                /\ lemmingCountInBatch[result'.event[3]] > 0
                /\ result'.event[1] = "DecryptionRequested"
          /\ (\/ requestCounter' # requestCounter
              \/ lastDecryptionRequestTime' # lastDecryptionRequestTime
              \/ \E r \in RequestIds :
                     decryptionContexts'[r].batchId
                         # decryptionContexts[r].batchId)
                => Called("requestBatchDecryption")]_vars

\* a batch was just opened: the owner's request on it, and on the id that is
\* not allocated yet, is stopped for want of records
C21_Witness ==
    /\ result.op = "openBatch"
    /\ currentBatchId < MaxBatches
    /\ \E sender \in Principals :
          /\ sender = owner
          /\ requestBatchDecryptionError(sender, currentBatchId)
                 = "InvalidBatchId"
          /\ requestBatchDecryptionError(sender, currentBatchId + 1)
                 = "InvalidBatchId"

\* C22: with the oracle handing out a fresh id for every request, the batch
\* id and state hash of a context are written by the request that returns
\* its id and never change afterwards; a callback that returns changes the
\* processed flag of its request and nothing else in the contexts.
C22_ContextImmutable ==
    [][/\ \A r \in RequestIds :
             IF NeverIssued(r)
             THEN decryptionContexts'[r] # decryptionContexts[r] =>
                     /\ Called("requestBatchDecryption")
                     /\ result'.event[2] = r
                     /\ decryptionContexts'[r] =
                            [batchId |-> result'.event[3],
                             stateHash |->
                                 _hashCiphertexts(CurrentCts(result'.event[3])),
                             processed |-> FALSE]
             ELSE /\ decryptionContexts'[r].batchId
                        = decryptionContexts[r].batchId
                  /\ decryptionContexts'[r].stateHash
                        = decryptionContexts[r].stateHash
       /\ Called("myCallback") =>
             decryptionContexts' =
                 [decryptionContexts EXCEPT ![result'.event[2]].processed
                                                = TRUE]]_vars

\* the last call finalized a request whose context still holds the batch id
\* and the hash of the handles it was issued with
C22_Witness ==
    /\ result.op = "myCallback"
    /\ LET context == decryptionContexts[result.event[2]]
       IN  /\ context.processed
           /\ context.batchId = result.event[3]
           /\ context.batchId \in 1..currentBatchId
           /\ context.stateHash
                  = _hashCiphertexts(requestedCts[result.event[2]])

\* C23 as stated: closeBatch by the owner on a batch that is not open, never
\* opened or already closed, reverts with the error of an invalid batch
\* (InvalidBatchId here), which the specification keeps apart from
\* BatchClosedOrInvalid.
C23_Original ==
    \A sender \in Principals, b \in BatchIds :
        (sender = owner /\ ~isBatchOpen[b]) =>
            closeBatchError(sender, b) = "InvalidBatchId"

\* what the contract does for C23: closeBatch by the owner reverts with
\* BatchClosedOrInvalid on a batch that is not open, and otherwise returns,
\* clearing the batch's open flag and changing nothing else in storage.
C23_CloseBatchGivesBatchClosedOrInvalid ==
    /\ [](\A sender \in Principals, b \in BatchIds :
             sender = owner =>
                 closeBatchError(sender, b) =
                     (IF isBatchOpen[b] THEN NoError
                                        ELSE "BatchClosedOrInvalid"))
    /\ [][Called("closeBatch") =>
             /\ isBatchOpen[result'.event[2]]
             /\ isBatchOpen' =
                    [isBatchOpen EXCEPT ![result'.event[2]] = FALSE]
             /\ UNCHANGED << owner, isProvider, paused, cooldownSeconds,
                             lastSubmissionTime, lastDecryptionRequestTime,
                             currentBatchId, decryptionContexts, lemmings,
                             lemmingCountInBatch >>]_vars

\* C24: an openBatch that returns takes the id after currentBatchId, the
\* first being 1, returns it in BatchOpened, opens that batch, which holds no
\* record, and leaves every other batch as it was; currentBatchId changes in
\* no other step, so the k-th openBatch that returns gives id k and a call
\* that reverts takes no id.  Earlier batches stay open.
C24_SequentialBatchIds ==
    /\ [](\A sender \in Principals :
             openBatchError(sender) =
                 (IF sender # owner THEN "NotOwner"
                  ELSE IF paused THEN "PausedState" ELSE NoError))
    /\ [][/\ currentBatchId' # currentBatchId => Called("openBatch")
          /\ Called("openBatch") =>
                LET id == currentBatchId + 1
                IN  /\ currentBatchId' = id
                    /\ result'.event = << "BatchOpened", id >>
                    /\ ~isBatchOpen[id]
                    /\ isBatchOpen' = [isBatchOpen EXCEPT ![id] = TRUE]
                    /\ lemmingCountInBatch'[id] = 0
                    /\ lemmings'[id] = [i \in LemmingIds |-> ZeroLemming]
                    /\ lemmingCountInBatch' = lemmingCountInBatch
                    /\ lemmings' = lemmings]_vars

\* the second openBatch just returned id 2 while batch 1, holding a record,
\* is still open
C24_Witness ==
    /\ result.op = "openBatch"
    /\ result.event[2] = 2
    /\ currentBatchId = 2
    /\ isBatchOpen[1]
    /\ isBatchOpen[2]
    /\ lemmingCountInBatch[1] > 0
    /\ lemmingCountInBatch[2] = 0

\* the verdict of the cooldown check of each class for an account
SubmitCooldown(a) == respectCooldown(a, lastSubmissionTime)
RequestCooldown(a) == respectCooldown(a, lastDecryptionRequestTime)

\* C25: the cooldown is kept per account and per class: a submitLemming that
\* returns changes the submission timestamp of its sender only and no
\* request timestamp, a requestBatchDecryption that returns changes the
\* request timestamp of its sender only and no submission timestamp; so the
\* cooldown verdict of every other account, and of the sender's other class,
\* is after the call what it was before.
C25_CooldownPerAccountAndClass ==
    [][/\ Called("submitLemming") =>
             /\ \A a \in Principals \ {result'.caller} :
                    /\ lastSubmissionTime'[a] = lastSubmissionTime[a]
                    /\ SubmitCooldown(a)' = SubmitCooldown(a)
             /\ \A a \in Principals :
                    /\ lastDecryptionRequestTime'[a]
                           = lastDecryptionRequestTime[a]
                    /\ RequestCooldown(a)' = RequestCooldown(a)
       /\ Called("requestBatchDecryption") =>
             /\ \A a \in Principals \ {result'.caller} :
                    /\ lastDecryptionRequestTime'[a]
                           = lastDecryptionRequestTime[a]
                    /\ RequestCooldown(a)' = RequestCooldown(a)
             /\ \A a \in Principals :
                    /\ lastSubmissionTime'[a] = lastSubmissionTime[a]
                    /\ SubmitCooldown(a)' = SubmitCooldown(a)]_vars

\* with a window of 1, the owner, who is a provider too, just submitted at
\* time 1: the owner's next submission is cooling down, the owner's request
\* and the other provider's submission are not
C25_Witness ==
    /\ result.op = "submitLemming"
    /\ result.caller = owner
    /\ cooldownSeconds = 1
    /\ blockTimestamp = 1
    /\ SubmitCooldown(result.caller) = "CooldownActive"
    /\ RequestCooldown(result.caller) = NoError
    /\ \E other \in Principals \ {result.caller} :
          /\ isProvider[other]
          /\ SubmitCooldown(other) = NoError

\* C26 as stated: there is an Administrator at all times, that is, the owner
\* is an account that can send a transaction.
C26_Original == owner # ZeroAddress

\* what the contract does for C26: transferOwnership by the owner makes
\* newOwner, address(0) included, the owner in that step and changes nothing
\* else in storage; a previous owner other than newOwner then gets NotOwner
\* from each of the eight owner-only functions; no other step changes the
\* owner.
C26_TransferReassignsOwner ==
    [][/\ owner' # owner => Called("transferOwnership")
       /\ Called("transferOwnership") =>
             /\ result'.caller = owner
             /\ result'.event[1] = "OwnershipTransferred"
             /\ result'.event[2] = owner
             /\ owner' = result'.event[3]
             /\ UNCHANGED << isProvider, paused, cooldownSeconds,
                             lastSubmissionTime, lastDecryptionRequestTime,
                             currentBatchId, isBatchOpen, decryptionContexts,
                             lemmings, lemmingCountInBatch >>
             /\ \A old \in Principals, b \in BatchIds :
                    (old = owner /\ old # owner') =>
                        /\ transferOwnershipError(old)' = "NotOwner"
                        /\ addProviderError(old)' = "NotOwner"
                        /\ removeProviderError(old)' = "NotOwner"
                        /\ setPausedError(old)' = "NotOwner"
                        /\ setCooldownSecondsError(old)' = "NotOwner"
                        /\ openBatchError(old)' = "NotOwner"
                        /\ closeBatchError(old, b)' = "NotOwner"
                        /\ requestBatchDecryptionError(old, b)'
                               = "NotOwner"]_vars

\* C27: addProvider and removeProvider by the owner pass their check whether
\* or not the account is a provider; the call that returns sets, or clears,
\* the account's flag and nothing else, so that adding a provider or removing
\* an account that is none leaves storage as it was, and a second call
\* changes nothing after the first.
C27_ProviderSetIdempotent ==
    /\ [](\A sender \in Principals :
             sender = owner =>
                 /\ addProviderError(sender) = NoError
                 /\ removeProviderError(sender) = NoError)
    /\ [][/\ Called("addProvider") =>
                LET provider == result'.event[2]
                IN  /\ isProvider' = [isProvider EXCEPT ![provider] = TRUE]
                    /\ isProvider[provider] => UNCHANGED storage
                    /\ [isProvider' EXCEPT ![provider] = TRUE] = isProvider'
                    /\ UNCHANGED << owner, paused, cooldownSeconds,
                                    lastSubmissionTime,
                                    lastDecryptionRequestTime, currentBatchId,
                                    isBatchOpen, decryptionContexts, lemmings,
                                    lemmingCountInBatch >>
          /\ Called("removeProvider") =>
                LET provider == result'.event[2]
                IN  /\ isProvider' = [isProvider EXCEPT ![provider] = FALSE]
                    /\ ~isProvider[provider] => UNCHANGED storage
                    /\ [isProvider' EXCEPT ![provider] = FALSE] = isProvider'
                    /\ UNCHANGED << owner, paused, cooldownSeconds,
                                    lastSubmissionTime,
                                    lastDecryptionRequestTime, currentBatchId,
                                    isBatchOpen, decryptionContexts, lemmings,
                                    lemmingCountInBatch >>]_vars

\* four calls have returned: an account was added, a batch opened, the
\* account submitted a record and was then added a second time
C27_Witness ==
    /\ steps = 4
    /\ blockTimestamp = 0
    /\ result.op = "addProvider"
    /\ isProvider[result.event[2]]
    /\ hasSubmitted[result.event[2]]

\* C28: DecryptionCompleted is emitted only by the step that takes its
\* request from unprocessed to processed, for a request that was issued, with
\* the batch id the request was issued for; a processed request stays
\* processed, so the event is emitted at most once for each request id.  The
\* request that returns emits DecryptionRequested with the id and batch it
\* records.
C28_CompletedEmittedOnce ==
    [][/\ \A r \in RequestIds :
             decryptionContexts[r].processed =>
                 /\ decryptionContexts'[r].processed
                 /\ ~(Called("myCallback") /\ result'.event[2] = r)
       /\ Called("myCallback") =>
             LET r == result'.event[2]
             IN  /\ result'.event[1] = "DecryptionCompleted"
                 /\ ~NeverIssued(r)
                 /\ Finalizes(r)
                 /\ result'.event[3] = decryptionContexts[r].batchId
       /\ Called("requestBatchDecryption") =>
             LET r == result'.event[2]
             IN  /\ result'.event[1] = "DecryptionRequested"
                 /\ NeverIssued(r)
                 /\ requestedCts'[r] # << >>
                 /\ decryptionContexts'[r].batchId = result'.event[3]
                 /\ ~decryptionContexts'[r].processed
       /\ (\E r \in RequestIds : Finalizes(r)) => Called("myCallback")]_vars

\* two requests were issued and the last call finalized one of them, the
\* other being pending
C28_Witness ==
    /\ result.op = "myCallback"
    /\ result.event[1] = "DecryptionCompleted"
    /\ decryptionContexts[result.event[2]].processed
    /\ \E r \in RequestIds \ {result.event[2]} : Pending(r)

(***************************************************************************)
(* The state hash as a function: batches with drawn contents, hashed by    *)
(* two deployments.                                                        *)
(***************************************************************************)
\* the records a batch can hold: up to MaxRecords submitted triples, in order
BatchContents == UNION { [1..n -> LemmingInputs] : n \in 0..MaxRecords }

\* the last call that returned when the deployer has made itself a provider,
\* opened every batch and submitted the records of `content` batch by batch
LastFillingCall(content) ==
    LET filled == { b \in 1..MaxBatches : Len(content[b]) > 0 } IN
    IF filled = {}
    THEN [op |-> "openBatch", caller |-> Deployer,
          event |-> << "BatchOpened", MaxBatches >>]
    ELSE LET last == CHOOSE b \in filled : \A c \in filled : c <= b
         IN  [op |-> "submitLemming", caller |-> Deployer,
              event |-> << "LemmingSubmitted", Deployer, last,
                           Len(content[last]) >>]

RECURSIVE TotalRecords(_, _)
TotalRecords(content, b) ==
    IF b = 0 THEN 0 ELSE Len(content[b]) + TotalRecords(content, b - 1)

\* The contract after addProvider(deployer), MaxBatches calls of openBatch and
\* the submitLemming calls that fill the batches with drawn records.
HashInit ==
    \E content \in [1..MaxBatches -> BatchContents] :
        /\ owner = Deployer
        /\ isProvider = [a \in Principals |-> a = Deployer]
        /\ paused = FALSE
        /\ cooldownSeconds = 0
        /\ lastSubmissionTime = [a \in Principals |-> 0]
        /\ lastDecryptionRequestTime = [a \in Principals |-> 0]
        /\ currentBatchId = MaxBatches
        /\ isBatchOpen = [b \in BatchIds |-> b >= 1]
        /\ decryptionContexts = [r \in RequestIds |-> ZeroContext]
        /\ lemmings =
               [b \in BatchIds |->
                   [i \in LemmingIds |->
                       IF b >= 1 /\ i <= Len(content[b])
                       THEN content[b][i] ELSE ZeroLemming]]
        /\ lemmingCountInBatch =
               [b \in BatchIds |-> IF b >= 1 THEN Len(content[b]) ELSE 0]
        /\ blockTimestamp = 0
        /\ requestCounter = 0
        /\ result = LastFillingCall(content)
        /\ requestedCts = [r \in RequestIds |-> << >>]
        /\ submissions =
               [b \in BatchIds |-> IF b >= 1 THEN Len(content[b]) ELSE 0]
        /\ hasSubmitted =
               [a \in Principals |->
                   a = Deployer /\ TotalRecords(content, MaxBatches) > 0]
        /\ hasRequested = [a \in Principals |-> FALSE]
        /\ steps = 1 + MaxBatches + TotalRecords(content, MaxBatches)

\* one evaluation of _hashCiphertexts: the deployment, the argument and the
\* value returned
Hashed(this, cts) ==
    [this |-> this, cts |-> cts, hash |-> _hashCiphertextsAt(cts, this)]

\* Two evaluations of _hashCiphertexts, as requestBatchDecryption and
\* myCallback make them: each on the handles of a batch, by the deployment
\* at this1 and by the deployment at this2.  The function is a view: nothing
\* is written, and `result` keeps the two return values in place of an event.
hashCiphertexts(this1, batch1, this2, batch2) ==
    /\ result' = [op |-> "_hashCiphertexts", caller |-> this1,
                  event |-> << "StateHashes",
                               Hashed(this1, CurrentCts(batch1)),
                               Hashed(this2, CurrentCts(batch2)) >>]
    /\ UNCHANGED << storage, environment, history, steps >>

HashNext ==
    \E this1, this2 \in CoordinatorAddresses :
        \E batch1, batch2 \in 1..MaxBatches :
            hashCiphertexts(this1, batch1, this2, batch2)

HashSpec == HashInit /\ [][HashNext]_vars

\* s and t have the same length and the same element at every position
SameSequence(s, t) ==
    /\ Len(s) = Len(t)
    /\ \A i \in 1..Len(s) : s[i] = t[i]

\* C29: the state hash is a function of the ordered handle sequence and the
\* address of the deployment.  Two hashes computed by one deployment are
\* equal exactly when the two sequences have the same length and the same
\* handle at every position, and two hashes computed by different deployments
\* differ whatever the sequences are; computing a hash again from the same
\* sequence and address gives the same value.
C29_HashDeterministicAndOrderSensitive ==
    result.op = "_hashCiphertexts" =>
        LET first == result.event[2]
            second == result.event[3]
        IN  /\ first.hash = _hashCiphertextsAt(first.cts, first.this)
            /\ second.hash = _hashCiphertextsAt(second.cts, second.this)
            /\ (first.hash = second.hash) <=>
                   /\ first.this = second.this
                   /\ SameSequence(first.cts, second.cts)

\* one deployment hashed two batches that hold the same two records in
\* opposite orders, and returned two different hashes
C29_Witness ==
    /\ result.op = "_hashCiphertexts"
    /\ LET first == result.event[2]
           second == result.event[3]
       IN  /\ first.this = second.this
           /\ Len(first.cts) = 6
           /\ Len(second.cts) = 6
           /\ \A i \in 1..3 :
                  /\ first.cts[i] = second.cts[i + 3]
                  /\ first.cts[i + 3] = second.cts[i]
           /\ first.cts # second.cts
           /\ first.hash # second.hash

\* request r is pending and a record was appended to its batch after it was
\* issued
Stale(r) == Drifted(r) /\ ~decryptionContexts[r].processed

\* C30: a pending request whose batch received a record after the request was
\* issued stays stale for ever: the hash of the batch's handles differs from
\* the hash the request stored, every callback for it gives StateMismatch,
\* no step changes its context, and it is stale again after every step.  A
\* callback for such a batch passes its checks, and returns, only for another
\* request, one that was issued later (its id is larger) on the records the
\* batch holds now.
C30_StalenessPermanent ==
    /\ [](\A r \in RequestIds :
             Stale(r) =>
                 /\ _hashCiphertexts(CurrentCts(decryptionContexts[r].batchId))
                        # decryptionContexts[r].stateHash
                 /\ \A c \in CleartextInputs, p \in BOOLEAN :
                        myCallbackError(r, c, p) = "StateMismatch"
                 /\ \A new \in RequestIds, c \in CleartextInputs,
                          p \in BOOLEAN :
                        (/\ decryptionContexts[new].batchId
                                = decryptionContexts[r].batchId
                         /\ myCallbackError(new, c, p) = NoError) =>
                            /\ new > r
                            /\ Len(requestedCts[new]) > Len(requestedCts[r])
                            /\ requestedCts[new]
                                   = CurrentCts(decryptionContexts[r].batchId))
    /\ [][\A r \in RequestIds :
             Stale(r) =>
                 /\ Stale(r)'
                 /\ decryptionContexts'[r] = decryptionContexts[r]
                 /\ requestedCts'[r] = requestedCts[r]
                 /\ (/\ Called("myCallback")
                     /\ result'.event[3] = decryptionContexts[r].batchId) =>
                        LET new == result'.event[2]
                        IN  /\ new > r
                            /\ Finalizes(new)
                            /\ Len(requestedCts[new]) > Len(requestedCts[r])
                            /\ requestedCts[new]
                                   = CurrentCts(decryptionContexts[r].batchId)]_vars

\* a second request was just issued on a batch whose first request is stale,
\* and a callback with a valid proof and exact cleartexts passes for the new
\* request while the stale one still gives StateMismatch
C30_Witness ==
    /\ result.op = "requestBatchDecryption"
    /\ \E r \in RequestIds :
          /\ Stale(r)
          /\ r < result.event[2]
          /\ decryptionContexts[r].batchId = result.event[3]
          /\ \A c \in CleartextInputs :
                 myCallbackError(r, c, TRUE) = "StateMismatch"
          /\ \E c \in ExactCleartexts(lemmingCountInBatch[result.event[3]]) :
                 myCallbackError(result.event[2], c, TRUE) = NoError

\* the batch ids that openBatch has allocated
AllocatedBatchIds == 1..currentBatchId

\* a context was stored under request id r
Recorded(r) == decryptionContexts[r] # ZeroContext

\* C31: in every reachable state, a batch id that is open or has a record
\* count above zero was allocated by openBatch (it lies in 1..currentBatchId);
\* batch id 0 is not open and holds no record; and every stored decryption
\* context belongs to an issued request id and names an allocated batch that
\* holds at least one record.
C31_BatchIdsWellFormed ==
    /\ \A b \in BatchIds :
          (isBatchOpen[b] \/ lemmingCountInBatch[b] > 0) =>
              b \in AllocatedBatchIds
    /\ ~isBatchOpen[0]
    /\ lemmingCountInBatch[0] = 0
    /\ lemmings[0] = [i \in LemmingIds |-> ZeroLemming]
    /\ \A r \in RequestIds :
          /\ Recorded(r) <=> r <= requestCounter
          /\ Recorded(r) =>
                /\ decryptionContexts[r].batchId \in AllocatedBatchIds
                /\ lemmingCountInBatch[decryptionContexts[r].batchId] > 0

\* two batches are allocated, the older one holds a record and was closed, a
\* request on it was just recorded, and the newer batch is open and empty
C31_Witness ==
    /\ result.op = "requestBatchDecryption"
    /\ currentBatchId = 2
    /\ Recorded(result.event[2])
    /\ decryptionContexts[result.event[2]].batchId = 1
    /\ ~isBatchOpen[1]
    /\ lemmingCountInBatch[1] > 0
    /\ isBatchOpen[2]
    /\ lemmingCountInBatch[2] = 0

\* requests r1 and r2 are different requests that were issued on one batch
SameBatch(r1, r2) ==
    /\ r1 # r2
    /\ ~NeverIssued(r1)
    /\ ~NeverIssued(r2)
    /\ decryptionContexts[r1].batchId = decryptionContexts[r2].batchId

\* C32: requests on one batch are independent.  The callback that finalizes
\* one request leaves the context of every other request, the records of the
\* batch and the outcome of every callback for the other requests as they
\* were.  A pending request whose batch still holds the records it was issued
\* on passes a callback with a valid proof and three words per record, also
\* when another request on the batch is already finalized; and once it is
\* finalized every callback for it gives ReplayAttempt, so it is finalized
\* once.
C32_RequestsIndependent ==
    /\ [](\A r1, r2 \in RequestIds :
             (/\ SameBatch(r1, r2)
              /\ decryptionContexts[r1].processed
              /\ Pending(r2)
              /\ ~Drifted(r2)) =>
                 \A c \in ExactCleartexts(
                           lemmingCountInBatch[decryptionContexts[r2].batchId]) :
                     myCallbackError(r2, c, TRUE) = NoError)
    /\ [][Called("myCallback") =>
             \A r2 \in RequestIds :
                 IF r2 = result'.event[2]
                 THEN /\ Finalizes(r2)
                      /\ \A c \in CleartextInputs, p \in BOOLEAN :
                             myCallbackError(r2, c, p)' = "ReplayAttempt"
                 ELSE /\ decryptionContexts'[r2] = decryptionContexts[r2]
                      /\ requestedCts'[r2] = requestedCts[r2]
                      /\ CurrentCts(decryptionContexts[r2].batchId)'
                             = CurrentCts(decryptionContexts[r2].batchId)
                      /\ \A c \in CleartextInputs, p \in BOOLEAN :
                             myCallbackError(r2, c, p)'
                                 = myCallbackError(r2, c, p)]_vars

\* two requests were outstanding on one batch at the same time and both are
\* finalized: the one issued first was finalized by the last call, after the
\* one issued second
C32_Witness ==
    /\ result.op = "myCallback"
    /\ \E r1, r2 \in RequestIds :
          /\ SameBatch(r1, r2)
          /\ r1 < r2
          /\ result.event[2] = r1
          /\ decryptionContexts[r1].processed
          /\ decryptionContexts[r2].processed
          /\ requestedCts[r1] = requestedCts[r2]

\* the verdict of a callback, written as a function of the request's context,
\* the handles its batch holds, the cleartexts and the proof verdict alone
CallbackVerdict(context, cts, cleartexts, proofValid) ==
    IF context.processed THEN "ReplayAttempt"
    ELSE IF Len(cts) = 0 THEN "InvalidBatchId"
    ELSE IF _hashCiphertexts(cts) # context.stateHash THEN "StateMismatch"
    ELSE IF ~proofValid THEN "InvalidSignatures"
    ELSE IF ByteLength(cleartexts) < 32 * Len(cts) THEN "SliceOutOfBounds"
    ELSE NoError

\* the event of a callback that returns, as a function of the same inputs
CallbackEvent(requestId, context, cts, cleartexts) ==
    LET n == Len(cts) \div 3
    IN  << "DecryptionCompleted", requestId, context.batchId,
           [i \in 1..n |-> cleartexts.words[3 * i - 2]],
           [i \in 1..n |-> cleartexts.words[3 * i - 1]],
           [i \in 1..n |-> cleartexts.words[3 * i]] >>

\* a callback from sender returns, sets the request's processed flag and
\* nothing else in the contexts, and emits the event the inputs determine
ReturnsAsDetermined(sender, r, c, p) ==
    LET context == decryptionContexts[r]
        cts == CurrentCts(context.batchId)
    IN  /\ myCallback(sender, r, c, p)
        /\ steps' # steps
        /\ decryptionContexts' =
               [decryptionContexts EXCEPT ![r].processed = TRUE]
        /\ result'.event = CallbackEvent(r, context, cts, c)

\* C33: the outcome of a callback is a function of the request's context, the
\* records its batch holds now, the cleartexts and the proof verdict, so that
\* two states that agree on these give the same outcome whatever the caller,
\* the pause flag, the cooldown and the timestamps, the provider set, the
\* owner and the batch's open flag are.  In every reachable state the error
\* is the one that function gives, whoever calls; when the function gives no
\* error the call returns from every caller (the owner, a provider or
\* neither) with the finalization the function gives; and a callback returns
\* only then and only so.
C33_CallbackOutcomeDependsOnInputsOnly ==
    /\ [](\A r \in RequestIds, c \in CleartextInputs, p \in BOOLEAN :
             LET context == decryptionContexts[r]
                 cts == CurrentCts(context.batchId)
                 verdict == CallbackVerdict(context, cts, c, p)
             IN  /\ myCallbackError(r, c, p) = verdict
                 /\ (verdict = NoError /\ steps < MaxSteps) =>
                        \A sender \in CallbackSenders :
                            ENABLED ReturnsAsDetermined(sender, r, c, p))
    /\ [][Called("myCallback") =>
             LET r == result'.event[2]
                 context == decryptionContexts[r]
                 cts == CurrentCts(context.batchId)
             IN  /\ decryptionContexts' =
                        [decryptionContexts EXCEPT ![r].processed = TRUE]
                 /\ \E c \in CleartextInputs :
                        /\ CallbackVerdict(context, cts, c, TRUE) = NoError
                        /\ result'.event = CallbackEvent(r, context, cts, c)]_vars

\* the last call finalized a request while the contract was paused and the
\* request's batch was closed, sent by an account that is neither the owner
\* nor a provider
C33_Witness ==
    /\ result.op = "myCallback"
    /\ decryptionContexts[result.event[2]].processed
    /\ paused
    /\ ~isBatchOpen[result.event[3]]
    /\ result.caller # owner
    /\ result.caller \notin Principals

====
